---- MODULE Spec2Model ----
(***************************************************************************)
(* Model of the greylist refinery of the DarkFi p2p network layer:         *)
(* RefineSession (start, handshake_node) and GreylistRefinery::run, from   *)
(* src/src/net/session/refine_session.rs, running against the host         *)
(* registry and the host container of net::hosts and next to the other     *)
(* sessions of the node.                                                   *)
(*                                                                         *)
(* net::hosts, net::connector, net::channel and the other sessions are not *)
(* part of the reviewed sources; they are modelled from their documented   *)
(* contract (spec.md, sections 4.1, 4.2, 5 and 6).                         *)
(***************************************************************************)
EXTENDS Integers, Sequences, FiniteSets, TLC

\* ------------------------------------------------------------------------
\* Bounds and constants
\* ------------------------------------------------------------------------

\* Clock readings (seconds) are capped at MaxTime.
MaxTime == 1

\* settings.time_with_no_connections, in seconds.
TimeWithNoConnections == 0

\* Timer::after(Duration::from_secs(5)) in handshake_node.
HandshakeTimeout == 5

\* The addresses of the model: two with an allowed scheme, one without.
AddrA == "tcp://a"
AddrB == "tcp://b"
AddrC == "tor://c"
Addrs == {AddrA, AddrB, AddrC}

\* Url::scheme()
Scheme(addr) == IF addr = AddrC THEN "tor" ELSE "tcp"

\* settings.allowed_transports
AllowedTransports == {"tcp"}

\* The sessions that run next to the refinery and claim hosts in the registry.
Workers == {"outbound"}

\* HostColor
Grey == "Grey"
White == "White"
Gold == "Gold"
Black == "Black"
HostColor == {Grey, White, Gold, Black}

\* HostState, and Absent for an address that has no entry in the registry.
Absent == "Absent"
HostState == {"Free", "Suspend", "Refine", "Connect"}

\* No address (Option::None).
NoAddr == "none"

VARIABLES
    spc,              \* RefineSession: "new", "loaded", "imported", "running",
                      \* "stopping", "saving", "stopped"
    hostlists,        \* hosts.container.hostlists: HostColor -> Seq(<<addr, last_seen>>)
    registry,         \* hosts registry: address -> HostState or Absent
    grey_writer,      \* holder of the write lock of hostlists[Grey]
    connected,        \* p2p.is_connected()
    last_connection,  \* hosts.last_connection
    now,              \* the clock, in seconds
    pc,               \* GreylistRefinery::run: the refinery task's position,
                      \* "cancelled" once the task was stopped
    url,              \* run: the candidate of the current iteration
    suspended_hosts,  \* run: the suspended hosts still to unregister
    last_seen,        \* run: the timestamp read at line 303
    channel,          \* handshake_node: "none", "open", "started", "stopped"
    timer,            \* handshake_node: seconds left on the timeout, 0 when fired or unarmed
    result,           \* handshake_node: the value returned
    hs_path,          \* handshake_node: the arm it returned through
    probe_start,      \* the clock when handshake_node was called
    wpc,              \* other sessions: "idle" or "held"
    waddr,            \* other sessions: the address a session holds a claim on
    log               \* the iterations of the refinery so far (kept by SoloSpec only)

vars == <<spc, hostlists, registry, grey_writer, connected, last_connection, now,
          pc, url, suspended_hosts, last_seen, channel, timer, result, hs_path,
          probe_start, wpc, waddr, log>>

\* What the refinery task owns.
refinery_vars == <<pc, url, suspended_hosts, last_seen, channel, timer, result,
                   hs_path, probe_start>>
\* What the other sessions own.
worker_vars == <<wpc, waddr>>
\* What the network layer owns.
net_vars == <<connected, last_connection>>

\* ------------------------------------------------------------------------
\* Sequences
\* ------------------------------------------------------------------------

\* The addresses of a host list.
AddrsOf(list) == {list[i][1] : i \in DOMAIN list}

\* Vec::remove(position)
RemoveAt(list, position) ==
    [i \in 1..(Len(list) - 1) |-> IF i < position THEN list[i] ELSE list[i + 1]]

\* The duplicate-free sequences over exactly the elements of S.
Perms(S) ==
    {f \in [1..Cardinality(S) -> S] : \A i, j \in 1..Cardinality(S) : f[i] = f[j] => i = j}

\* A list of entries never seen (last_seen 0) from a sequence of addresses.
Entries(addrs) == [i \in DOMAIN addrs |-> <<addrs[i], 0>>]

\* ------------------------------------------------------------------------
\* HostRegistry (net::hosts)
\* ------------------------------------------------------------------------

\* try_register: Ok when the address is absent or Free, Err(Busy) otherwise.
CanRegister(reg, addr) == reg[addr] \in {Absent, "Free"}

\* try_register: the registry afterwards; a busy address keeps its state.
try_register(reg, addr, state) ==
    IF CanRegister(reg, addr) THEN [reg EXCEPT ![addr] = state] ELSE reg

\* Mutant: the entry is kept and marked Free instead of being removed.
unregisterMarksFree(reg, addr) == [reg EXCEPT ![addr] = "Free"]

\* unregister: removes the entry; no-op on an absent address.
unregister(reg, addr) == [reg EXCEPT ![addr] = Absent]

\* Mutant: the snapshot holds every address that has an entry, whatever its
\* state.
suspendedAnyState(reg) == {addr \in Addrs : reg[addr] # Absent}

\* suspended: a snapshot of the addresses in Suspend.
suspended(reg) == {addr \in Addrs : reg[addr] = "Suspend"}

\* ------------------------------------------------------------------------
\* HostContainer (net::hosts)
\* ------------------------------------------------------------------------

\* is_empty(color)
is_empty(lists, color) == lists[color] = <<>>

\* fetch_random_with_schemes(color, schemes): the positions it may return
\* (none when the set is empty).
fetch_random_with_schemes(lists, color, schemes) ==
    {i \in DOMAIN lists[color] : Scheme(lists[color][i][1]) \in schemes}

\* get_index_at_addr(color, addr): the first position of addr, 0 for None.
get_index_at_addr(lists, color, addr) ==
    IF addr \in AddrsOf(lists[color])
    THEN CHOOSE i \in DOMAIN lists[color] :
            /\ lists[color][i][1] = addr
            /\ \A j \in 1..(i - 1) : lists[color][j][1] # addr
    ELSE 0

\* The tiers move_host looks the address up in.
MovableColors == <<Grey, White, Gold>>

\* The tier that holds addr, NoAddr when none does.
ColorOf(lists, addr) ==
    IF \E k \in DOMAIN MovableColors : addr \in AddrsOf(lists[MovableColors[k]])
    THEN MovableColors[CHOOSE k \in DOMAIN MovableColors :
            /\ addr \in AddrsOf(lists[MovableColors[k]])
            /\ \A j \in 1..(k - 1) : addr \notin AddrsOf(lists[MovableColors[j]])]
    ELSE NoAddr

\* move_host(addr, last_seen, destination): Ok unless NotFound.
move_host_ok(lists, addr) == ColorOf(lists, addr) # NoAddr

\* move_host: the lists afterwards: the entry leaves the list that held it and
\* is appended to the destination with the new last_seen.
move_host(lists, addr, seen, dest) ==
    IF ~move_host_ok(lists, addr) THEN lists
    ELSE LET src == ColorOf(lists, addr)
             removed == [lists EXCEPT
                 ![src] = RemoveAt(lists[src], get_index_at_addr(lists, src, addr))]
         IN  [removed EXCEPT ![dest] = Append(removed[dest], <<addr, seen>>)]

\* ------------------------------------------------------------------------
\* The files read by RefineSession::start
\* ------------------------------------------------------------------------

\* The ways to put every address in Grey, White, Gold or in no list; an address
\* the node has no transport for was never verified: it is in Grey or nowhere.
Tierings ==
    {t \in [Addrs -> {Grey, White, Gold, NoAddr}] :
        \A a \in Addrs : Scheme(a) \notin AllowedTransports => t[a] \in {Grey, NoAddr}}

\* The persisted hostlists save_all can have written: Grey, White and Gold
\* duplicate-free and pairwise disjoint, in any order.
PersistedFiles ==
    UNION {
        {[c \in HostColor |-> IF c = Grey THEN Entries(g)
                              ELSE IF c = White THEN Entries(w)
                              ELSE IF c = Gold THEN Entries(d)
                              ELSE <<>>] :
            g \in Perms({a \in Addrs : t[a] = Grey}),
            w \in Perms({a \in Addrs : t[a] = White}),
            d \in Perms({a \in Addrs : t[a] = Gold})}
        : t \in Tierings}

\* The blacklists the configuration file can hold.
Blacklists == {<<>>, <<AddrB>>}

\* ------------------------------------------------------------------------
\* Initial state: RefineSession::new()
\* ------------------------------------------------------------------------

Init ==
    /\ spc = "new"
    /\ hostlists = [c \in HostColor |-> <<>>]
    /\ registry = [a \in Addrs |-> Absent]
    /\ grey_writer = NoAddr
    /\ connected = FALSE
    /\ last_connection = 0
    /\ now = 0
    /\ pc = "unstarted"
    /\ url = NoAddr
    /\ suspended_hosts = {}
    /\ last_seen = 0
    /\ channel = "none"
    /\ timer = 0
    /\ result = FALSE
    /\ hs_path = "none"
    /\ probe_start = 0
    /\ wpc = [w \in Workers |-> "idle"]
    /\ waddr = [w \in Workers |-> NoAddr]
    /\ log = <<>>

\* ------------------------------------------------------------------------
\* RefineSession::start
\* ------------------------------------------------------------------------

\* load_all returned Ok: the lists hold the persisted entries.
StartLoadOk ==
    /\ spc = "new"
    /\ \E file \in PersistedFiles : hostlists' = file
    /\ spc' = "loaded"
    /\ UNCHANGED <<registry, grey_writer, now, refinery_vars, worker_vars, net_vars>>

\* Mutant: start() returns on a failed load, the refinery is never started.
StartLoadErrFatal ==
    /\ spc = "new"
    /\ spc' = "failed"
    /\ UNCHANGED <<hostlists, registry, grey_writer, now, refinery_vars, worker_vars,
                   net_vars>>

\* load_all returned Err: logged, the lists stay as they are.
StartLoadErr ==
    /\ spc = "new"
    /\ spc' = "loaded"
    /\ UNCHANGED <<hostlists, registry, grey_writer, now, refinery_vars, worker_vars,
                   net_vars>>

\* import_blacklist returned Ok: the configured addresses are in Black.
StartImportOk ==
    /\ spc = "loaded"
    /\ \E blacklist \in Blacklists :
          hostlists' = [hostlists EXCEPT ![Black] = @ \o Entries(blacklist)]
    /\ spc' = "imported"
    /\ UNCHANGED <<registry, grey_writer, now, refinery_vars, worker_vars, net_vars>>

\* import_blacklist returned Err: logged.
StartImportErr ==
    /\ spc = "loaded"
    /\ spc' = "imported"
    /\ UNCHANGED <<hostlists, registry, grey_writer, now, refinery_vars, worker_vars,
                   net_vars>>

\* self.refinery.start(): the task runs GreylistRefinery::run.
StartRefinery ==
    /\ spc = "imported"
    /\ spc' = "running"
    /\ pc' = "sleep"
    /\ UNCHANGED <<hostlists, registry, grey_writer, now, url, suspended_hosts,
                   last_seen, channel, timer, result, hs_path, probe_start,
                   worker_vars, net_vars>>

\* ------------------------------------------------------------------------
\* GreylistRefinery::run
\* ------------------------------------------------------------------------

\* The locals of an iteration go out of scope at `continue`.
EndIteration ==
    /\ pc' = "sleep"
    /\ url' = NoAddr
    /\ last_seen' = 0
    /\ channel' = "none"
    /\ result' = FALSE
    /\ hs_path' = "none"
    /\ probe_start' = 0

\* sleep(settings.greylist_refinery_interval) returns.
RefinerySleep ==
    /\ pc = "sleep"
    /\ pc' = "is_empty"
    /\ UNCHANGED <<spc, hostlists, registry, grey_writer, now, url, suspended_hosts,
                   last_seen, channel, timer, result, hs_path, probe_start,
                   worker_vars, net_vars>>

\* Mutant: the `continue` of the empty greylist is lost, the iteration goes on
\* to the offline check.
RefineryIsEmptyFallsThrough ==
    /\ pc = "is_empty"
    /\ grey_writer = NoAddr
    /\ pc' = "offline"
    /\ UNCHANGED <<spc, hostlists, registry, grey_writer, now, url, suspended_hosts,
                   last_seen, channel, timer, result, hs_path, probe_start,
                   worker_vars, net_vars>>

\* if hosts.container.is_empty(HostColor::Grey) { continue }
RefineryIsEmpty ==
    /\ pc = "is_empty"
    /\ grey_writer = NoAddr
    /\ IF is_empty(hostlists, Grey) THEN pc' = "sleep" ELSE pc' = "offline"
    /\ UNCHANGED <<spc, hostlists, registry, grey_writer, now, url, suspended_hosts,
                   last_seen, channel, timer, result, hs_path, probe_start,
                   worker_vars, net_vars>>

\* Instant::now().duration_since(*hosts.last_connection.lock().unwrap())
offline_timer == now - last_connection

\* !p2p.is_connected() && offline_timer >= offline_limit
RefineryPaused == ~connected /\ offline_timer >= TimeWithNoConnections

\* The offline check; when paused, the snapshot of the suspended hosts.
RefineryOffline ==
    /\ pc = "offline"
    /\ IF RefineryPaused
       THEN /\ suspended_hosts' = suspended(registry)
            /\ pc' = IF suspended(registry) = {} THEN "sleep" ELSE "clear_suspended"
       ELSE /\ pc' = "fetch"
            /\ UNCHANGED suspended_hosts
    /\ UNCHANGED <<spc, hostlists, registry, grey_writer, now, url,
                   last_seen, channel, timer, result, hs_path, probe_start,
                   worker_vars, net_vars>>

\* Mutant: the `continue` after the loop over the suspended hosts is lost, the
\* paused iteration goes on to draw a candidate.
RefineryClearSuspendedFallsThrough ==
    /\ pc = "clear_suspended"
    /\ \E host \in suspended_hosts :
          /\ registry' = unregister(registry, host)
          /\ suspended_hosts' = suspended_hosts \ {host}
          /\ pc' = IF suspended_hosts = {host} THEN "fetch" ELSE "clear_suspended"
    /\ UNCHANGED <<spc, hostlists, grey_writer, now, url,
                   last_seen, channel, timer, result, hs_path, probe_start,
                   worker_vars, net_vars>>

\* Mutant: the loop over the suspended hosts ends after its first pass.
RefineryClearSuspendedFirstOnly ==
    /\ pc = "clear_suspended"
    /\ \E host \in suspended_hosts :
          /\ registry' = unregister(registry, host)
          /\ suspended_hosts' = {}
          /\ pc' = "sleep"
    /\ UNCHANGED <<spc, hostlists, grey_writer, now, url,
                   last_seen, channel, timer, result, hs_path, probe_start,
                   worker_vars, net_vars>>

\* for host in suspended_hosts { hosts.unregister(&host) }, then continue.
RefineryClearSuspended ==
    /\ pc = "clear_suspended"
    /\ \E host \in suspended_hosts :
          /\ registry' = unregister(registry, host)
          /\ suspended_hosts' = suspended_hosts \ {host}
          /\ pc' = IF suspended_hosts = {host} THEN "sleep" ELSE "clear_suspended"
    /\ UNCHANGED <<spc, hostlists, grey_writer, now, url,
                   last_seen, channel, timer, result, hs_path, probe_start,
                   worker_vars, net_vars>>

\* Mutant: the draw is made over every scheme, not over the allowed transports.
RefineryFetchAnyScheme ==
    /\ pc = "fetch"
    /\ grey_writer = NoAddr
    /\ LET found == fetch_random_with_schemes(hostlists, Grey, {"tcp", "tor"})
       IN  IF found = {}
           THEN pc' = "sleep" /\ UNCHANGED url
           ELSE \E i \in found :
                   /\ url' = hostlists[Grey][i][1]
                   /\ pc' = "try_register"
    /\ UNCHANGED <<spc, hostlists, registry, grey_writer, now, suspended_hosts,
                   last_seen, channel, timer, result, hs_path, probe_start,
                   worker_vars, net_vars>>

\* fetch_random_with_schemes(HostColor::Grey, &settings.allowed_transports):
\* Some((entry, _)) with url = &entry.0, or None and continue.
RefineryFetch ==
    /\ pc = "fetch"
    /\ grey_writer = NoAddr
    /\ LET found == fetch_random_with_schemes(hostlists, Grey, AllowedTransports)
       IN  IF found = {}
           THEN pc' = "sleep" /\ UNCHANGED url
           ELSE \E i \in found :
                   /\ url' = hostlists[Grey][i][1]
                   /\ pc' = "try_register"
    /\ UNCHANGED <<spc, hostlists, registry, grey_writer, now, suspended_hosts,
                   last_seen, channel, timer, result, hs_path, probe_start,
                   worker_vars, net_vars>>

\* Mutant: on Err the refinery draws another candidate in the same iteration.
RefineryTryRegisterRetries ==
    /\ pc = "try_register"
    /\ IF CanRegister(registry, url)
       THEN /\ registry' = try_register(registry, url, "Refine")
            /\ pc' = "hs_connect"
            /\ probe_start' = now
            /\ UNCHANGED <<url, last_seen, channel, result, hs_path>>
       ELSE /\ pc' = "fetch"
            /\ UNCHANGED <<registry, url, last_seen, channel, result, hs_path,
                           probe_start>>
    /\ UNCHANGED <<spc, hostlists, grey_writer, now, suspended_hosts, timer,
                   worker_vars, net_vars>>

\* Mutant: the write guard of the greylist is taken with the claim, before
\* the probe, instead of after it.
RefineryTryRegisterLocks ==
    /\ pc = "try_register"
    /\ IF CanRegister(registry, url)
       THEN /\ grey_writer = NoAddr
            /\ grey_writer' = "refinery"
            /\ registry' = try_register(registry, url, "Refine")
            /\ pc' = "hs_connect"
            /\ probe_start' = now
            /\ UNCHANGED <<url, last_seen, channel, result, hs_path>>
       ELSE /\ EndIteration
            /\ UNCHANGED <<registry, grey_writer>>
    /\ UNCHANGED <<spc, hostlists, now, suspended_hosts, timer,
                   worker_vars, net_vars>>

\* Mutant: the claim is written over whatever state the address has.
RefineryTryRegisterOverwrites ==
    /\ pc = "try_register"
    /\ registry' = [registry EXCEPT ![url] = "Refine"]
    /\ pc' = "hs_connect"
    /\ probe_start' = now
    /\ UNCHANGED <<url, last_seen, channel, result, hs_path>>
    /\ UNCHANGED <<spc, hostlists, grey_writer, now, suspended_hosts, timer,
                   worker_vars, net_vars>>

\* Mutant: the Err of try_register is dropped and the probe runs anyway.
RefineryTryRegisterIgnoresBusy ==
    /\ pc = "try_register"
    /\ registry' = try_register(registry, url, "Refine")
    /\ pc' = "hs_connect"
    /\ probe_start' = now
    /\ UNCHANGED <<url, last_seen, channel, result, hs_path>>
    /\ UNCHANGED <<spc, hostlists, grey_writer, now, suspended_hosts, timer,
                   worker_vars, net_vars>>

\* hosts.try_register(url.clone(), HostState::Refine): on Err continue, on Ok
\* call handshake_node.
RefineryTryRegister ==
    /\ pc = "try_register"
    /\ IF CanRegister(registry, url)
       THEN /\ registry' = try_register(registry, url, "Refine")
            /\ pc' = "hs_connect"
            /\ probe_start' = now
            /\ UNCHANGED <<url, last_seen, channel, result, hs_path>>
       ELSE /\ EndIteration
            /\ UNCHANGED registry
    /\ UNCHANGED <<spc, hostlists, grey_writer, now, suspended_hosts, timer,
                   worker_vars, net_vars>>

\* Mutant: a probe that timed out is told apart from the other failures, its
\* candidate is kept in the greylist.
RefineryProbeResultSparesTimeout ==
    /\ pc = "hs_done"
    /\ pc' = IF result THEN "stamp"
             ELSE IF hs_path = "timeout" THEN "unregister_fail"
             ELSE "evict_lock"
    /\ UNCHANGED <<spc, hostlists, registry, grey_writer, now, url, suspended_hosts,
                   last_seen, channel, timer, result, hs_path, probe_start,
                   worker_vars, net_vars>>

\* Mutant: the negation is lost, a reachable peer is evicted and a dead one
\* promoted.
RefineryProbeResultInverted ==
    /\ pc = "hs_done"
    /\ pc' = IF result THEN "evict_lock" ELSE "stamp"
    /\ UNCHANGED <<spc, hostlists, registry, grey_writer, now, url, suspended_hosts,
                   last_seen, channel, timer, result, hs_path, probe_start,
                   worker_vars, net_vars>>

\* if !handshake_node(..).await: the branch taken on the probe's result.
RefineryProbeResult ==
    /\ pc = "hs_done"
    /\ pc' = IF ~result THEN "evict_lock" ELSE "stamp"
    /\ UNCHANGED <<spc, hostlists, registry, grey_writer, now, url, suspended_hosts,
                   last_seen, channel, timer, result, hs_path, probe_start,
                   worker_vars, net_vars>>

\* Mutant: the claim is released before the entry is removed from the greylist.
RefineryEvictLockReleasesFirst ==
    /\ pc = "evict_lock"
    /\ grey_writer = NoAddr
    /\ grey_writer' = "refinery"
    /\ registry' = unregister(registry, url)
    /\ pc' = "evict_remove"
    /\ UNCHANGED <<spc, hostlists, now, url, suspended_hosts,
                   last_seen, channel, timer, result, hs_path, probe_start,
                   worker_vars, net_vars>>

\* hosts.container.hostlists[Grey].write().await
RefineryEvictLock ==
    /\ pc = "evict_lock"
    /\ grey_writer = NoAddr
    /\ grey_writer' = "refinery"
    /\ pc' = "evict_remove"
    /\ UNCHANGED <<spc, hostlists, registry, now, url, suspended_hosts,
                   last_seen, channel, timer, result, hs_path, probe_start,
                   worker_vars, net_vars>>

\* Mutant: the entry at the head of the greylist is removed, whatever the
\* position of the candidate.
RefineryEvictRemoveHead ==
    /\ pc = "evict_remove"
    /\ LET position == get_index_at_addr(hostlists, Grey, url)
       IN  IF position = 0
           THEN pc' = "panicked" /\ UNCHANGED hostlists
           ELSE /\ hostlists' = [hostlists EXCEPT ![Grey] = Tail(@)]
                /\ pc' = "unregister_fail"
    /\ grey_writer' = NoAddr
    /\ UNCHANGED <<spc, registry, now, url, suspended_hosts,
                   last_seen, channel, timer, result, hs_path, probe_start,
                   worker_vars, net_vars>>

\* Mutant: the position is looked up and the entry is left in the list.
RefineryEvictRemoveKeeps ==
    /\ pc = "evict_remove"
    /\ LET position == get_index_at_addr(hostlists, Grey, url)
       IN  pc' = IF position = 0 THEN "panicked" ELSE "unregister_fail"
    /\ grey_writer' = NoAddr
    /\ UNCHANGED <<spc, hostlists, registry, now, url, suspended_hosts,
                   last_seen, channel, timer, result, hs_path, probe_start,
                   worker_vars, net_vars>>

\* get_index_at_addr(Grey, url).unwrap(), greylist.remove(position), and the
\* write guard dropped; unwrap() of None panics and the task ends. The lookup
\* and the removal are one critical section of the write guard.
RefineryEvictRemove ==
    /\ pc = "evict_remove"
    /\ LET position == get_index_at_addr(hostlists, Grey, url)
       IN  IF position = 0
           THEN pc' = "panicked" /\ UNCHANGED hostlists
           ELSE /\ hostlists' = [hostlists EXCEPT ![Grey] = RemoveAt(@, position)]
                /\ pc' = "unregister_fail"
    /\ grey_writer' = NoAddr
    /\ UNCHANGED <<spc, registry, now, url, suspended_hosts,
                   last_seen, channel, timer, result, hs_path, probe_start,
                   worker_vars, net_vars>>

\* Mutant: the failure branch puts the candidate in the whitelist before it
\* releases the claim.
RefineryUnregisterFailPromotes ==
    /\ pc = "unregister_fail"
    /\ hostlists' = [hostlists EXCEPT ![White] = Append(@, <<url, now>>)]
    /\ registry' = unregister(registry, url)
    /\ EndIteration
    /\ UNCHANGED <<spc, grey_writer, now, suspended_hosts, timer,
                   worker_vars, net_vars>>

\* Mutant: the failure branch continues without releasing the claim.
RefineryUnregisterFailLeaks ==
    /\ pc = "unregister_fail"
    /\ EndIteration
    /\ UNCHANGED <<spc, hostlists, registry, grey_writer, now, suspended_hosts, timer,
                   worker_vars, net_vars>>

\* hosts.unregister(url); continue (failed probe).
RefineryUnregisterFail ==
    /\ pc = "unregister_fail"
    /\ registry' = unregister(registry, url)
    /\ EndIteration
    /\ UNCHANGED <<spc, hostlists, grey_writer, now, suspended_hosts, timer,
                   worker_vars, net_vars>>

\* Mutant: the claim is released once the probe has succeeded, before the move.
RefineryStampReleases ==
    /\ pc = "stamp"
    /\ last_seen' = now
    /\ registry' = unregister(registry, url)
    /\ pc' = "move_host"
    /\ UNCHANGED <<spc, hostlists, grey_writer, now, url, suspended_hosts,
                   channel, timer, result, hs_path, probe_start,
                   worker_vars, net_vars>>

\* Mutant: the entry keeps the last_seen it had in the greylist (entry.1).
RefineryStampStale ==
    /\ pc = "stamp"
    /\ last_seen' = IF get_index_at_addr(hostlists, Grey, url) = 0 THEN 0
                    ELSE hostlists[Grey][get_index_at_addr(hostlists, Grey, url)][2]
    /\ pc' = "move_host"
    /\ UNCHANGED <<spc, hostlists, registry, grey_writer, now, url, suspended_hosts,
                   channel, timer, result, hs_path, probe_start,
                   worker_vars, net_vars>>

\* let last_seen = UNIX_EPOCH.elapsed().unwrap().as_secs();
RefineryStamp ==
    /\ pc = "stamp"
    /\ last_seen' = now
    /\ pc' = "move_host"
    /\ UNCHANGED <<spc, hostlists, registry, grey_writer, now, url, suspended_hosts,
                   channel, timer, result, hs_path, probe_start,
                   worker_vars, net_vars>>

\* Mutant: the entry is taken out of its list and never put in the whitelist.
RefineryMoveHostDrops ==
    /\ pc = "move_host"
    /\ grey_writer = NoAddr
    /\ IF move_host_ok(hostlists, url)
       THEN /\ hostlists' =
                 [c \in HostColor |->
                     IF c = Black THEN hostlists[c]
                     ELSE SelectSeq(hostlists[c], LAMBDA e : e[1] # url)]
            /\ pc' = "unregister_ok"
       ELSE pc' = "panicked" /\ UNCHANGED hostlists
    /\ UNCHANGED <<spc, registry, grey_writer, now, url, suspended_hosts,
                   last_seen, channel, timer, result, hs_path, probe_start,
                   worker_vars, net_vars>>

\* Mutant: the entry is put at the head of the whitelist.
RefineryMoveHostPrepends ==
    /\ pc = "move_host"
    /\ grey_writer = NoAddr
    /\ IF move_host_ok(hostlists, url)
       THEN /\ hostlists' =
                 [c \in HostColor |->
                     IF c = White
                     THEN <<<<url, last_seen>>>> \o
                              SelectSeq(hostlists[c], LAMBDA e : e[1] # url)
                     ELSE SelectSeq(hostlists[c], LAMBDA e : e[1] # url)]
            /\ pc' = "unregister_ok"
       ELSE pc' = "panicked" /\ UNCHANGED hostlists
    /\ UNCHANGED <<spc, registry, grey_writer, now, url, suspended_hosts,
                   last_seen, channel, timer, result, hs_path, probe_start,
                   worker_vars, net_vars>>

\* Mutant: the entry is pushed on the whitelist and left where it was.
RefineryMoveHostCopies ==
    /\ pc = "move_host"
    /\ grey_writer = NoAddr
    /\ hostlists' = [hostlists EXCEPT ![White] = Append(@, <<url, last_seen>>)]
    /\ pc' = "unregister_ok"
    /\ UNCHANGED <<spc, registry, grey_writer, now, url, suspended_hosts,
                   last_seen, channel, timer, result, hs_path, probe_start,
                   worker_vars, net_vars>>

\* hosts.move_host(url, last_seen, HostColor::White).await.unwrap(); unwrap()
\* of Err panics and the task ends.
RefineryMoveHost ==
    /\ pc = "move_host"
    /\ grey_writer = NoAddr
    /\ IF move_host_ok(hostlists, url)
       THEN /\ hostlists' = move_host(hostlists, url, last_seen, White)
            /\ pc' = "unregister_ok"
       ELSE pc' = "panicked" /\ UNCHANGED hostlists
    /\ UNCHANGED <<spc, registry, grey_writer, now, url, suspended_hosts,
                   last_seen, channel, timer, result, hs_path, probe_start,
                   worker_vars, net_vars>>

\* hosts.unregister(url); continue (successful probe).
RefineryUnregisterOk ==
    /\ pc = "unregister_ok"
    /\ registry' = unregister(registry, url)
    /\ EndIteration
    /\ UNCHANGED <<spc, hostlists, grey_writer, now, suspended_hosts, timer,
                   worker_vars, net_vars>>

\* ------------------------------------------------------------------------
\* RefineSession::handshake_node, as called by the refinery
\* ------------------------------------------------------------------------

\* connector.connect(&addr).await returned Ok((url, channel)).
HandshakeConnectOk ==
    /\ pc = "hs_connect"
    /\ channel' = "open"
    /\ pc' = "hs_start"
    /\ UNCHANGED <<spc, hostlists, registry, grey_writer, now, url, suspended_hosts,
                   last_seen, timer, result, hs_path, probe_start,
                   worker_vars, net_vars>>

\* Mutant: a failed connect releases the claim on the address.
HandshakeConnectErrReleases ==
    /\ pc = "hs_connect"
    /\ result' = FALSE
    /\ hs_path' = "connect_err"
    /\ registry' = unregister(registry, url)
    /\ pc' = "hs_done"
    /\ UNCHANGED <<spc, hostlists, grey_writer, now, url, suspended_hosts,
                   last_seen, channel, timer, probe_start,
                   worker_vars, net_vars>>

\* Mutant: a failed connect is reported as a reachable peer.
HandshakeConnectErrTrue ==
    /\ pc = "hs_connect"
    /\ result' = TRUE
    /\ hs_path' = "connect_err"
    /\ pc' = "hs_done"
    /\ UNCHANGED <<spc, hostlists, registry, grey_writer, now, url, suspended_hosts,
                   last_seen, channel, timer, probe_start,
                   worker_vars, net_vars>>

\* connector.connect(&addr).await returned Err(e): false.
HandshakeConnectErr ==
    /\ pc = "hs_connect"
    /\ result' = FALSE
    /\ hs_path' = "connect_err"
    /\ pc' = "hs_done"
    /\ UNCHANGED <<spc, hostlists, registry, grey_writer, now, url, suspended_hosts,
                   last_seen, channel, timer, probe_start,
                   worker_vars, net_vars>>

\* ProtocolVersion::new, perform_handshake_protocols, channel.start(executor)
\* and Timer::after(5 s).
HandshakeStart ==
    /\ pc = "hs_start"
    /\ channel' = "started"
    /\ timer' = HandshakeTimeout
    /\ pc' = "hs_select"
    /\ UNCHANGED <<spc, hostlists, registry, grey_writer, now, url, suspended_hosts,
                   last_seen, result, hs_path, probe_start,
                   worker_vars, net_vars>>

\* select(handshake, timeout) returned through the given arm.
HandshakeSelected(arm, value) ==
    /\ result' = value
    /\ hs_path' = arm
    /\ timer' = 0
    /\ pc' = "hs_stop"
    /\ UNCHANGED <<spc, hostlists, registry, grey_writer, now, url, suspended_hosts,
                   last_seen, channel, probe_start, worker_vars, net_vars>>

\* Either::Left((Ok(_), _)) => true
HandshakeSelectOk ==
    /\ pc = "hs_select"
    /\ HandshakeSelected("ok", TRUE)

\* select(handshake, timeout) returned through the given arm and the function
\* returns at once, with the channel running (mutants).
HandshakeReturnsEarly(arm, value) ==
    /\ result' = value
    /\ hs_path' = arm
    /\ timer' = 0
    /\ pc' = "hs_done"
    /\ UNCHANGED <<spc, hostlists, registry, grey_writer, now, url, suspended_hosts,
                   last_seen, channel, probe_start, worker_vars, net_vars>>

\* Mutant: the handshake error is returned before channel.stop().
HandshakeSelectErrReturnsEarly ==
    /\ pc = "hs_select"
    /\ HandshakeReturnsEarly("handshake_err", FALSE)

\* Either::Left((Err(e), _)) => false
HandshakeSelectErr ==
    /\ pc = "hs_select"
    /\ HandshakeSelected("handshake_err", FALSE)

\* Mutant: the timeout is returned before channel.stop().
HandshakeSelectTimeoutReturnsEarly ==
    /\ pc = "hs_select"
    /\ timer = 0
    /\ HandshakeReturnsEarly("timeout", FALSE)

\* Either::Right((_, _)) => false: the timer has fired.
HandshakeSelectTimeout ==
    /\ pc = "hs_select"
    /\ timer = 0
    /\ HandshakeSelected("timeout", FALSE)

\* channel.stop().await; result
HandshakeStop ==
    /\ pc = "hs_stop"
    /\ channel' = "stopped"
    /\ pc' = "hs_done"
    /\ UNCHANGED <<spc, hostlists, registry, grey_writer, now, url, suspended_hosts,
                   last_seen, timer, result, hs_path, probe_start,
                   worker_vars, net_vars>>

\* ------------------------------------------------------------------------
\* The other sessions (outbound, inbound): they claim an address in the
\* registry before they touch its entry, and release or suspend it after.
\* ------------------------------------------------------------------------

\* hosts.try_register(addr, HostState::Connect): Ok, or Err(Busy) and give up.
\* A session only dials the transports the node allows.
WorkerTryRegister(w, addr) ==
    /\ spc = "running"
    /\ Scheme(addr) \in AllowedTransports
    /\ wpc[w] = "idle"
    /\ registry' = try_register(registry, addr, "Connect")
    /\ IF CanRegister(registry, addr)
       THEN /\ wpc' = [wpc EXCEPT ![w] = "held"]
            /\ waddr' = [waddr EXCEPT ![w] = addr]
       ELSE UNCHANGED worker_vars
    /\ UNCHANGED <<spc, hostlists, grey_writer, now, refinery_vars, net_vars>>

\* hosts.move_host(addr, last_seen, dest) on the claimed address.
WorkerMoveHost(w, dest) ==
    /\ wpc[w] = "held"
    /\ grey_writer = NoAddr
    /\ move_host_ok(hostlists, waddr[w])
    /\ hostlists' = move_host(hostlists, waddr[w], now, dest)
    /\ UNCHANGED <<spc, registry, grey_writer, now, refinery_vars, worker_vars,
                   net_vars>>

\* The session gives the address up and leaves it in Suspend.
WorkerSuspend(w) ==
    /\ wpc[w] = "held"
    /\ registry' = [registry EXCEPT ![waddr[w]] = "Suspend"]
    /\ wpc' = [wpc EXCEPT ![w] = "idle"]
    /\ waddr' = [waddr EXCEPT ![w] = NoAddr]
    /\ UNCHANGED <<spc, hostlists, grey_writer, now, refinery_vars, net_vars>>

\* hosts.unregister(addr)
WorkerUnregister(w) ==
    /\ wpc[w] = "held"
    /\ registry' = unregister(registry, waddr[w])
    /\ wpc' = [wpc EXCEPT ![w] = "idle"]
    /\ waddr' = [waddr EXCEPT ![w] = NoAddr]
    /\ UNCHANGED <<spc, hostlists, grey_writer, now, refinery_vars, net_vars>>

\* ------------------------------------------------------------------------
\* The clock and the network
\* ------------------------------------------------------------------------

\* A second passes: the clock advances up to its cap, an armed timer counts down.
Tick ==
    /\ now < MaxTime \/ timer > 0
    /\ now' = IF now < MaxTime THEN now + 1 ELSE now
    /\ timer' = IF timer > 0 THEN timer - 1 ELSE 0
    /\ UNCHANGED <<spc, hostlists, registry, grey_writer, pc, url, suspended_hosts,
                   last_seen, channel, result, hs_path, probe_start,
                   worker_vars, net_vars>>

\* The node gets its first connection: hosts.last_connection is stamped.
NetConnect ==
    /\ ~connected
    /\ connected' = TRUE
    /\ last_connection' = now
    /\ UNCHANGED <<spc, hostlists, registry, grey_writer, now, refinery_vars,
                   worker_vars>>

\* The node loses its last connection.
NetDisconnect ==
    /\ connected
    /\ connected' = FALSE
    /\ UNCHANGED <<spc, hostlists, registry, grey_writer, now, refinery_vars,
                   worker_vars, last_connection>>

\* ------------------------------------------------------------------------
\* The record of the refinery's iterations (SoloSpec)
\* ------------------------------------------------------------------------

\* The iterations SoloSpec records.
MaxLog == 2

\* The node has no connection and the time since the last one exceeds the
\* threshold.
OfflineStrict == ~connected /\ now - last_connection > TimeWithNoConnections

LogKeep == UNCHANGED log

\* A new iteration has taken its first decision: what it did, and the lists,
\* the suspended hosts and the state of the network it found.
LogAppend(kind) ==
    log' = Append(log, [kind |-> kind, addr |-> NoAddr, start |-> 0,
                        offline |-> OfflineStrict, connected |-> connected,
                        lists |-> hostlists, suspended |-> suspended(registry)])

\* The current iteration has gone on to a later decision, about addr.
LogAmend(kind, addr) ==
    log' = [log EXCEPT ![Len(log)] =
                [@ EXCEPT !.kind = kind, !.addr = addr, !.start = probe_start]]

\* An address was left in Suspend by the outbound session before the refinery
\* started.
SeedSuspend(addr) ==
    /\ spc \in {"new", "loaded", "imported"}
    /\ Scheme(addr) \in AllowedTransports
    /\ registry[addr] = Absent
    /\ registry' = [registry EXCEPT ![addr] = "Suspend"]
    /\ UNCHANGED <<spc, hostlists, grey_writer, now, refinery_vars, worker_vars,
                   net_vars>>

\* ------------------------------------------------------------------------
\* RefineSession::stop
\* ------------------------------------------------------------------------

\* The positions of run and of handshake_node at which the task is suspended
\* in an .await: the sleep, the reads of the greylist, connect,
\* ProtocolVersion::new, select, channel.stop, the write lock, the lookup
\* under it, and move_host.
AwaitPcs == {"sleep", "is_empty", "fetch", "hs_connect", "hs_start", "hs_select",
             "hs_stop", "evict_lock", "evict_remove", "move_host"}

\* self.refinery.stop(): process.stop() signals the task and waits for it.
StopRequest ==
    /\ spc = "running"
    /\ spc' = "stopping"
    /\ UNCHANGED <<hostlists, registry, grey_writer, now, refinery_vars, worker_vars,
                   net_vars>>

\* The task observes the stop signal at the suspension point it is at: run is
\* an endless loop, so the task ends by its future being dropped there; a write
\* guard it holds is dropped with it, the timer is disarmed.
RefineryCancelled ==
    /\ spc = "stopping"
    /\ pc \in AwaitPcs
    /\ pc' = "cancelled"
    /\ grey_writer' = IF grey_writer = "refinery" THEN NoAddr ELSE grey_writer
    /\ timer' = 0
    /\ UNCHANGED <<spc, hostlists, registry, now, url, suspended_hosts, last_seen,
                   channel, result, hs_path, probe_start, worker_vars, net_vars>>

\* Mutant: save_all is called without waiting for the task to end.
StopAwaitedEarly ==
    /\ spc = "stopping"
    /\ spc' = "saving"
    /\ UNCHANGED <<hostlists, registry, grey_writer, now, refinery_vars, worker_vars,
                   net_vars>>

\* self.refinery.stop().await has returned: the task has ended, save_all is
\* called.
StopAwaited ==
    /\ spc = "stopping"
    /\ pc = "cancelled"
    /\ spc' = "saving"
    /\ UNCHANGED <<hostlists, registry, grey_writer, now, refinery_vars, worker_vars,
                   net_vars>>

\* save_all returned Ok or Err (logged): the lists are not changed by it.
StopSaved ==
    /\ spc = "saving"
    /\ spc' = "stopped"
    /\ UNCHANGED <<hostlists, registry, grey_writer, now, refinery_vars, worker_vars,
                   net_vars>>

\* ------------------------------------------------------------------------
\* Specifications
\* ------------------------------------------------------------------------

\* The refinery next to the other sessions.
Next ==
    \/ StartLoadOk /\ LogKeep
    \/ StartLoadErr /\ LogKeep
    \/ StartImportOk /\ LogKeep
    \/ StartImportErr /\ LogKeep
    \/ StartRefinery /\ LogKeep
    \/ RefinerySleep /\ LogKeep
    \/ RefineryIsEmpty /\ LogKeep
    \/ RefineryOffline /\ LogKeep
    \/ RefineryClearSuspended /\ LogKeep
    \/ RefineryFetch /\ LogKeep
    \/ RefineryTryRegister /\ LogKeep
    \/ RefineryProbeResult /\ LogKeep
    \/ RefineryEvictLock /\ LogKeep
    \/ RefineryEvictRemove /\ LogKeep
    \/ RefineryUnregisterFail /\ LogKeep
    \/ RefineryStamp /\ LogKeep
    \/ RefineryMoveHost /\ LogKeep
    \/ RefineryUnregisterOk /\ LogKeep
    \/ HandshakeConnectOk /\ LogKeep
    \/ HandshakeConnectErr /\ LogKeep
    \/ HandshakeStart /\ LogKeep
    \/ HandshakeSelectOk /\ LogKeep
    \/ HandshakeSelectErr /\ LogKeep
    \/ HandshakeSelectTimeout /\ LogKeep
    \/ HandshakeStop /\ LogKeep
    \/ \E w \in Workers, addr \in Addrs : WorkerTryRegister(w, addr) /\ LogKeep
    \/ \E w \in Workers, dest \in {Grey, White, Gold} : WorkerMoveHost(w, dest) /\ LogKeep
    \/ \E w \in Workers : WorkerSuspend(w) /\ LogKeep
    \/ \E w \in Workers : WorkerUnregister(w) /\ LogKeep
    \/ Tick /\ LogKeep
    \/ NetConnect /\ LogKeep
    \/ NetDisconnect /\ LogKeep

Spec == Init /\ [][Next]_vars

\* The refinery alone, with the record of its first MaxLog iterations.
SoloNext ==
    \/ StartLoadOk /\ LogKeep
    \/ StartLoadErr /\ LogKeep
    \/ StartImportOk /\ LogKeep
    \/ StartImportErr /\ LogKeep
    \/ StartRefinery /\ LogKeep
    \/ \E addr \in Addrs : SeedSuspend(addr) /\ LogKeep
    \/ Len(log) < MaxLog /\ RefinerySleep /\ LogKeep
    \/ RefineryIsEmpty /\ (IF pc' = "sleep" THEN LogAppend("empty") ELSE LogKeep)
    \/ RefineryOffline /\ LogAppend(IF pc' = "fetch" THEN "run" ELSE "pause")
    \/ RefineryClearSuspended /\ LogKeep
    \/ RefineryFetch /\ (IF pc' = "sleep" THEN LogAmend("nomatch", NoAddr) ELSE LogKeep)
    \/ RefineryTryRegister /\ (IF pc' = "sleep" THEN LogAmend("busy", url) ELSE LogKeep)
    \/ RefineryProbeResult /\ LogAmend(hs_path, url)
    \/ RefineryEvictLock /\ LogKeep
    \/ RefineryEvictRemove /\ LogKeep
    \/ RefineryUnregisterFail /\ LogKeep
    \/ RefineryStamp /\ LogKeep
    \/ RefineryMoveHost /\ LogKeep
    \/ RefineryUnregisterOk /\ LogKeep
    \/ HandshakeConnectOk /\ LogKeep
    \/ HandshakeConnectErr /\ LogKeep
    \/ HandshakeStart /\ LogKeep
    \/ HandshakeSelectOk /\ LogKeep
    \/ HandshakeSelectErr /\ LogKeep
    \/ HandshakeSelectTimeout /\ LogKeep
    \/ HandshakeStop /\ LogKeep
    \/ Tick /\ LogKeep
    \/ NetConnect /\ LogKeep
    \/ NetDisconnect /\ LogKeep

SoloSpec == Init /\ [][SoloNext]_vars

\* The refinery alone, from start() to the end of stop().
StopNext ==
    \/ StartLoadOk /\ LogKeep
    \/ StartLoadErr /\ LogKeep
    \/ StartImportOk /\ LogKeep
    \/ StartImportErr /\ LogKeep
    \/ StartRefinery /\ LogKeep
    \/ \E addr \in Addrs : SeedSuspend(addr) /\ LogKeep
    \/ RefinerySleep /\ LogKeep
    \/ RefineryIsEmpty /\ LogKeep
    \/ RefineryOffline /\ LogKeep
    \/ RefineryClearSuspended /\ LogKeep
    \/ RefineryFetch /\ LogKeep
    \/ RefineryTryRegister /\ LogKeep
    \/ RefineryProbeResult /\ LogKeep
    \/ RefineryEvictLock /\ LogKeep
    \/ RefineryEvictRemove /\ LogKeep
    \/ RefineryUnregisterFail /\ LogKeep
    \/ RefineryStamp /\ LogKeep
    \/ RefineryMoveHost /\ LogKeep
    \/ RefineryUnregisterOk /\ LogKeep
    \/ HandshakeConnectOk /\ LogKeep
    \/ HandshakeConnectErr /\ LogKeep
    \/ HandshakeStart /\ LogKeep
    \/ HandshakeSelectOk /\ LogKeep
    \/ HandshakeSelectErr /\ LogKeep
    \/ HandshakeSelectTimeout /\ LogKeep
    \/ HandshakeStop /\ LogKeep
    \/ StopRequest /\ LogKeep
    \/ RefineryCancelled /\ LogKeep
    \/ StopAwaited /\ LogKeep
    \/ StopSaved /\ LogKeep
    \/ Tick /\ LogKeep
    \/ NetConnect /\ LogKeep
    \/ NetDisconnect /\ LogKeep

StopSpec == Init /\ [][StopNext]_vars

\* Spec with the progress the executor and the collaborators give to a probe:
\* time passes, a select whose timer has fired is polled, and channel.stop()
\* returns.
FairSpec ==
    /\ Spec
    /\ WF_vars(Tick /\ LogKeep)
    /\ WF_vars(HandshakeSelectTimeout /\ LogKeep)
    /\ WF_vars(HandshakeStop /\ LogKeep)

\* Spec with the progress of start(): load_all and import_blacklist return,
\* with Ok or with Err, and the refinery task is spawned.
StartFairSpec ==
    /\ Spec
    /\ WF_vars((StartLoadOk \/ StartLoadErr) /\ LogKeep)
    /\ WF_vars((StartImportOk \/ StartImportErr) /\ LogKeep)
    /\ WF_vars(StartRefinery /\ LogKeep)

\* Spec with the progress of the failure branch: the write lock of the
\* greylist is granted when it is free, the lookup and removal under it
\* return, and the unregister that follows is executed.
EvictFairSpec ==
    /\ Spec
    /\ WF_vars(RefineryEvictLock /\ LogKeep)
    /\ WF_vars(RefineryEvictRemove /\ LogKeep)
    /\ WF_vars(RefineryUnregisterFail /\ LogKeep)

\* A step of start() or of the refinery task.
TaskStep ==
    \/ StartLoadOk /\ LogKeep
    \/ StartLoadErr /\ LogKeep
    \/ StartImportOk /\ LogKeep
    \/ StartImportErr /\ LogKeep
    \/ StartRefinery /\ LogKeep
    \/ RefinerySleep /\ LogKeep
    \/ RefineryIsEmpty /\ LogKeep
    \/ RefineryOffline /\ LogKeep
    \/ RefineryClearSuspended /\ LogKeep
    \/ RefineryFetch /\ LogKeep
    \/ RefineryTryRegister /\ LogKeep
    \/ RefineryProbeResult /\ LogKeep
    \/ RefineryEvictLock /\ LogKeep
    \/ RefineryEvictRemove /\ LogKeep
    \/ RefineryUnregisterFail /\ LogKeep
    \/ RefineryStamp /\ LogKeep
    \/ RefineryMoveHost /\ LogKeep
    \/ RefineryUnregisterOk /\ LogKeep
    \/ HandshakeConnectOk /\ LogKeep
    \/ HandshakeConnectErr /\ LogKeep
    \/ HandshakeStart /\ LogKeep
    \/ HandshakeSelectOk /\ LogKeep
    \/ HandshakeSelectErr /\ LogKeep
    \/ HandshakeSelectTimeout /\ LogKeep
    \/ HandshakeStop /\ LogKeep

\* Spec with the progress of a running session: the executor runs the task
\* whenever it can take a step, time passes, and the random draw is fair:
\* an eligible entry that is offered again and again is eventually drawn.
DrainFairSpec ==
    /\ Spec
    /\ WF_vars(TaskStep)
    /\ WF_vars(Tick /\ LogKeep)
    /\ \A addr \in Addrs : SF_vars(RefineryFetch /\ url' = addr /\ LogKeep)

\* ------------------------------------------------------------------------
\* Properties
\* ------------------------------------------------------------------------

\* The positions of run at which the refinery holds the claim it took on url.
ClaimPcs == {"hs_connect", "hs_start", "hs_select", "hs_stop", "hs_done",
             "evict_lock", "evict_remove", "unregister_fail",
             "stamp", "move_host", "unregister_ok", "panicked"}

\* The positions of run before a claim is taken.
TopOfLoop == {"sleep", "is_empty", "offline", "clear_suspended", "fetch", "try_register"}

RefineryHolds(addr) == pc \in ClaimPcs /\ url = addr
WorkerHolds(w, addr) == wpc[w] = "held" /\ waddr[w] = addr

\* The workers that hold a claim on addr.
Holders(addr) ==
    {w \in Workers : WorkerHolds(w, addr)}
        \cup (IF RefineryHolds(addr) THEN {"refinery"} ELSE {})

RegistryEmpty == \A addr \in Addrs : registry[addr] = Absent

\* The arms through which handshake_node returns false.
FailKinds == {"connect_err", "handshake_err", "timeout"}

Last(seq) == seq[Len(seq)]

\* The addresses of a list, in its order.
AddrSeq(list) == [i \in DOMAIN list |-> list[i][1]]

\* C1: for every address at most one worker (the refinery or another session)
\* holds a claim, the registry shows the holder's state, a non-Free state has a
\* holder unless it is Suspend, and a try_register of the refinery succeeds
\* exactly when the address is absent or Free.
C1_HoldersInv ==
    \A addr \in Addrs :
        /\ Cardinality(Holders(addr)) <= 1
        /\ RefineryHolds(addr) => registry[addr] = "Refine"
        /\ \A w \in Workers : WorkerHolds(w, addr) => registry[addr] = "Connect"
        /\ registry[addr] \in {"Refine", "Connect"} => Holders(addr) # {}

C1_MutualExclusion ==
    /\ []C1_HoldersInv
    /\ [][(pc = "try_register" /\ pc' # "try_register")
            => ((pc' = "hs_connect") <=> CanRegister(registry, url))]_vars

\* C1 witness: the refinery is about to call try_register on an address that
\* another session holds.
C1_Witness == pc = "try_register" /\ \E w \in Workers : WorkerHolds(w, url)

C3_NoLeakedClaims ==
    (/\ pc = "sleep"
     /\ log # <<>>
     /\ log[1].suspended = {}
     /\ \A i \in DOMAIN log : log[i].kind \in FailKinds)
    => /\ Len(hostlists[Grey]) = Len(log[1].lists[Grey]) - Len(log)
       /\ RegistryEmpty

\* C3 witness: two iterations with failed probes are done.
C3_Witness ==
    /\ pc = "sleep"
    /\ Len(log) = 2
    /\ log[1].suspended = {}
    /\ \A i \in DOMAIN log : log[i].kind \in FailKinds

\* C4: the iteration goes down the success branch only after a probe that
\* returned true, and when it ends the candidate is in White with a last_seen
\* not before the start of the probe, is not in Grey, and has no registry entry.
C4_Promotion ==
    /\ [](pc \in {"stamp", "move_host", "unregister_ok"} => result /\ hs_path = "ok")
    /\ [][(pc = "unregister_ok" /\ pc' = "sleep")
            => /\ \E i \in DOMAIN hostlists'[White] :
                     /\ hostlists'[White][i][1] = url
                     /\ hostlists'[White][i][2] >= probe_start
               /\ url \notin AddrsOf(hostlists'[Grey])
               /\ registry'[url] = Absent]_vars

\* C4 witness: a probe that started at second 1 succeeded and its candidate
\* has been moved to White.
C4_Witness ==
    /\ pc = "unregister_ok"
    /\ probe_start = 1
    /\ url \in AddrsOf(hostlists[White])
    /\ url \notin AddrsOf(hostlists[Grey])

\* The scenario of C5 so far: Grey = [A, B] and nothing in White or in the
\* registry at the first iteration, the node connected at every iteration,
\* every probe of A failed and every probe of B succeeded.
C5_Scenario ==
    /\ log # <<>>
    /\ AddrSeq(log[1].lists[Grey]) = <<AddrA, AddrB>>
    /\ log[1].lists[White] = <<>>
    /\ log[1].suspended = {}
    /\ \A i \in DOMAIN log :
          /\ log[i].connected
          /\ log[i].addr = AddrA => log[i].kind \in FailKinds
          /\ log[i].addr = AddrB => log[i].kind = "ok"

\* C5: in that scenario, after two iterations Grey is empty, White is [B] and
\* the registry is empty.
C5_TwoTicks ==
    (pc = "sleep" /\ Len(log) = 2 /\ C5_Scenario)
    => /\ hostlists[Grey] = <<>>
       /\ AddrSeq(hostlists[White]) = <<AddrB>>
       /\ RegistryEmpty

\* C5 witness: the scenario after two iterations, B having been drawn first.
C5_Witness ==
    /\ pc = "sleep"
    /\ Len(log) = 2
    /\ C5_Scenario
    /\ log[1].addr = AddrB

\* C6 as stated: after an iteration that found the node offline for longer
\* than the threshold, whatever the lists held, no Suspend entry (here: no
\* entry at all) is left in the registry.
C6_Original ==
    (pc = "sleep" /\ log # <<>> /\ Last(log).offline) => RegistryEmpty

\* C6 as amended: after an iteration that found Grey non-empty and the node
\* offline for longer than the threshold, no Suspend entry (here: no entry at
\* all) is left in the registry.
C6_OfflineRelease ==
    (/\ pc = "sleep"
     /\ log # <<>>
     /\ Last(log).offline
     /\ Last(log).lists[Grey] # <<>>)
    => RegistryEmpty

\* C6 witness: an iteration found two suspended hosts, a non-empty Grey and
\* the node offline, and has released both.
C6_Witness ==
    /\ pc = "sleep"
    /\ log # <<>>
    /\ Last(log).offline
    /\ Last(log).lists[Grey] # <<>>
    /\ Cardinality(Last(log).suspended) = 2
    /\ RegistryEmpty

\* C7: a probe that left select through the timeout arm returns false with
\* the channel stopped, and a probe waiting in select always returns: the
\* timer fires if the handshake stalls.
C7_Timeout ==
    /\ []((pc \in {"hs_stop", "hs_done"} /\ hs_path = "timeout") => ~result)
    /\ []((pc = "hs_done" /\ hs_path = "timeout") => channel = "stopped")
    /\ (pc = "hs_select") ~> (pc = "hs_done")

\* C7 witness: handshake_node has returned false through the timeout arm, the
\* channel stopped.
C7_Witness ==
    /\ pc = "hs_done"
    /\ hs_path = "timeout"
    /\ ~result
    /\ channel = "stopped"

\* C8: when handshake_node has returned after a successful connect the
\* channel is stopped, and a channel is started only while handshake_node is
\* between channel.start() and channel.stop().
C8_NoLeakedChannel ==
    /\ (pc = "hs_done" /\ hs_path # "connect_err") => channel = "stopped"
    /\ channel = "started" => pc \in {"hs_select", "hs_stop"}
    /\ channel = "open" => pc = "hs_start"

\* C8 witness: handshake_node has returned after a handshake error, the
\* channel stopped.
C8_Witness ==
    /\ pc = "hs_done"
    /\ hs_path = "handshake_err"
    /\ channel = "stopped"

\* C9: handshake_node returns a boolean, true exactly when the handshake arm
\* of select completed with Ok; after a failed connect no channel was ever
\* opened, started or stopped.
C9_BooleanFold ==
    pc = "hs_done" =>
        /\ result \in BOOLEAN
        /\ hs_path \in FailKinds \cup {"ok"}
        /\ result <=> hs_path = "ok"
        /\ hs_path = "connect_err" <=> channel = "none"

\* C9 witness: handshake_node has returned false after a failed connect.
C9_Witness ==
    /\ pc = "hs_done"
    /\ hs_path = "connect_err"
    /\ ~result
    /\ channel = "none"

\* No address occurs twice in the list.
NoDuplicates(list) ==
    \A i, j \in DOMAIN list : list[i][1] = list[j][1] => i = j

\* C10: Grey, White and Gold are duplicate-free and pairwise disjoint.
C10_Partition ==
    /\ \A c \in {Grey, White, Gold} : NoDuplicates(hostlists[c])
    /\ AddrsOf(hostlists[Grey]) \cap AddrsOf(hostlists[White]) = {}
    /\ AddrsOf(hostlists[Grey]) \cap AddrsOf(hostlists[Gold]) = {}
    /\ AddrsOf(hostlists[White]) \cap AddrsOf(hostlists[Gold]) = {}

\* C10 witness: the refinery has moved its candidate to White while another
\* session holds an address it has moved to Gold, and Grey is not empty.
C10_Witness ==
    /\ pc = "unregister_ok"
    /\ url \in AddrsOf(hostlists[White])
    /\ \E w \in Workers : wpc[w] = "held" /\ waddr[w] \in AddrsOf(hostlists[Gold])
    /\ hostlists[Grey] # <<>>

\* The positions of run at which handshake_node is running against url.
ProbePcs == {"hs_connect", "hs_start", "hs_select", "hs_stop", "hs_done"}

\* C11: once start() has loaded the lists and imported the blacklist, the
\* refinery neither probes an address that is in Black nor moves one to
\* White (as it would be if Black were disjoint from Grey and checked before
\* the dial).
C11_NoProbeOfBlack ==
    pc \in ProbePcs \cup {"stamp", "move_host", "unregister_ok"} =>
        url \notin AddrsOf(hostlists[Black])

\* The states a registry entry in state st may be in after one step: a held
\* state is only ever changed by its release (or by its holder suspending it).
AfterHeld(st) ==
    IF st = "Connect" THEN {"Connect", "Suspend", Absent}
    ELSE IF st = "Refine" THEN {"Refine", Absent}
    ELSE {"Suspend", Absent}

\* C12: no step writes a claimant's state over the non-Free state of an
\* address, and a try_register of the refinery on such an address fails: the
\* registry is as before and the iteration ends without a probe.
C12_BusyLeavesRegistry ==
    /\ [][\A addr \in Addrs :
             registry[addr] \in {"Suspend", "Refine", "Connect"}
                 => registry'[addr] \in AfterHeld(registry[addr])]_vars
    /\ [][(pc = "try_register" /\ pc' # "try_register" /\ ~CanRegister(registry, url))
             => (registry' = registry /\ pc' = "sleep")]_vars

\* C12 witness: the refinery is about to call try_register on an address that
\* was left in Suspend.
C12_Witness == pc = "try_register" /\ registry[url] = "Suspend"

Without(list, addr) == SelectSeq(list, LAMBDA e : e[1] # addr)

\* The lists after addr has left the tier that held it and was appended to
\* dest with last-seen seen.
Moved(lists, addr, seen, dest) ==
    [c \in HostColor |->
        IF c = dest THEN Append(Without(lists[c], addr), <<addr, seen>>)
        ELSE IF c = Black THEN lists[c]
        ELSE Without(lists[c], addr)]

InSomeTier(lists, addr) ==
    \E c \in {Grey, White, Gold} : addr \in AddrsOf(lists[c])

C15_StopOrdering ==
    /\ [](spc \in {"saving", "stopped"} => (pc = "cancelled" /\ grey_writer = NoAddr))
    /\ [][(spc # "saving" /\ spc' = "saving") => (spc = "stopping" /\ pc = "cancelled")]_vars
    /\ [][(spc = "saving" \/ spc = "stopped")
            => (hostlists' = hostlists /\ registry' = registry /\ pc' = pc)]_vars

\* C15 witness: save_all runs after the task was stopped in the middle of an
\* iteration, while it waited for the write lock of the greylist.
C15_Witness ==
    /\ spc = "saving"
    /\ pc = "cancelled"
    /\ url \in Addrs
    /\ hs_path \in FailKinds

\* C16: after stop() has returned no address is in Refine state: an iteration
\* that held a claim when stop() was called has finished and released it.
C16_NoStuckClaim ==
    spc = "stopped" => \A addr \in Addrs : registry[addr] # "Refine"

\* C17: start() attempts the load, then the import, then starts the refinery,
\* in that order and whatever the first two returned: the refinery is started
\* from no other point, and it is always started.
C17_StartNonFatal ==
    /\ [][(spc = "new" /\ spc' # "new") => spc' = "loaded"]_vars
    /\ [][(spc = "loaded" /\ spc' # "loaded") => spc' = "imported"]_vars
    /\ [][(pc = "unstarted" /\ pc' # "unstarted")
            => (spc = "imported" /\ spc' = "running" /\ pc' = "sleep")]_vars
    /\ [](spc \in {"new", "loaded", "imported"} <=> pc = "unstarted")
    /\ <>(spc = "running" /\ pc # "unstarted")

\* C17 witness: the refinery runs on the empty lists that a failed load and a
\* failed import leave.
C17_Witness ==
    /\ spc = "running"
    /\ pc = "is_empty"
    /\ \A c \in HostColor : hostlists[c] = <<>>

\* The positions at which the refinery is suspended in a network operation
\* of the probe: connect, the version exchange, the timeout race, channel.stop.
NetworkPcs == {"hs_connect", "hs_start", "hs_select", "hs_stop"}

\* C18: while the refinery is suspended in a network operation of the probe
\* it holds no lock of a host list; it takes the write lock of the greylist
\* only for the lookup and removal of the eviction.
C18_NoLockAcrossIO ==
    /\ pc \in NetworkPcs => grey_writer # "refinery"
    /\ grey_writer = "refinery" <=> pc = "evict_remove"

\* C18 witness: the refinery waits in the timeout race while the other
\* session moves the host it holds to Gold.
C18_Witness ==
    /\ pc = "hs_select"
    /\ grey_writer = NoAddr
    /\ \E w \in Workers : wpc[w] = "held" /\ waddr[w] \in AddrsOf(hostlists[Gold])

\* The number of entries addr has in Grey, White and Gold together.
TierCount(lists, addr) ==
    Cardinality({<<c, i>> \in {Grey, White, Gold} \X (1..Cardinality(Addrs) + 1) :
                    i \in DOMAIN lists[c] /\ lists[c][i][1] = addr})

C20_ConflictSkips ==
    /\ [][(pc = "try_register" /\ ~CanRegister(registry, url))
            => \/ UNCHANGED <<pc, url>>
               \/ /\ pc' = "sleep"
                  /\ hostlists' = hostlists
                  /\ registry' = registry
                  /\ channel' = "none"]_vars
    /\ []((pc = "sleep" /\ log # <<>> /\ Last(log).kind = "busy")
            => /\ hostlists = Last(log).lists
               /\ registry[Last(log).addr] = "Suspend"
               /\ suspended(registry) = Last(log).suspended
               /\ channel = "none")

\* C20 witness: the refinery is back at its sleep after an iteration whose
\* claim failed on an address left in Suspend, after an iteration that probed
\* another address.
C20_Witness ==
    /\ pc = "sleep"
    /\ Len(log) = 2
    /\ log[1].kind \in FailKinds \cup {"ok"}
    /\ log[2].kind = "busy"
    /\ registry[log[2].addr] = "Suspend"

\* C21: an iteration that reaches the offline check pauses exactly when the
\* node has no connection and the time since the last connection exceeds the
\* threshold; with a connection, or with an elapsed time up to and including
\* the threshold, it releases nothing and goes on to draw a candidate.
C21_PauseExact ==
    \A i \in DOMAIN log :
        log[i].kind # "empty" => (log[i].kind = "pause" <=> log[i].offline)

\* C22: an iteration that takes the pause branch only unregisters: from the
\* offline check it goes to the loop over the suspended hosts and from there
\* to the sleep, no step of it changes a host list, and when it ends the four
\* lists are the lists it found, no address is claimed as Refine, and no
\* candidate was drawn and no channel opened.
C22_PauseFrame ==
    /\ [][(pc = "offline" /\ RefineryPaused /\ pc' # pc)
            => /\ pc' \in {"clear_suspended", "sleep"}
               /\ hostlists' = hostlists
               /\ registry' = registry]_vars
    /\ [][(pc = "clear_suspended" /\ pc' # pc)
            => (pc' = "sleep" /\ hostlists' = hostlists)]_vars
    /\ []((pc \in {"clear_suspended", "sleep"} /\ log # <<>> /\ Last(log).kind = "pause")
            => /\ hostlists = Last(log).lists
               /\ \A addr \in Addrs : registry[addr] # "Refine"
               /\ url = NoAddr
               /\ channel = "none")

\* C22 witness: a paused iteration has released a suspended host and is back
\* at the sleep, with entries in Grey and in White.
C22_Witness ==
    /\ pc = "sleep"
    /\ log # <<>>
    /\ Last(log).kind = "pause"
    /\ Cardinality(Last(log).suspended) = 1
    /\ hostlists[Grey] # <<>>
    /\ hostlists[White] # <<>>

\* C23: the snapshot a pausing iteration takes is exactly the set of addresses
\* in Suspend at that moment; every host it still has to release is in
\* Suspend; each pass of its loop removes the entry of one such host and
\* changes no other entry, so an address another session holds in Connect (or
\* that is in Refine) keeps its state through the paused iteration.
C23_OnlySuspendReleased ==
    /\ [][(pc = "offline" /\ RefineryPaused /\ pc' # pc)
            => /\ suspended_hosts' = {addr \in Addrs : registry[addr] = "Suspend"}
               /\ registry' = registry]_vars
    /\ [](pc = "clear_suspended"
            => /\ suspended_hosts # {}
               /\ \A host \in suspended_hosts : registry[host] = "Suspend")
    /\ [][(pc = "clear_suspended" /\ suspended_hosts' # suspended_hosts)
            => \E host \in suspended_hosts :
                  /\ registry[host] = "Suspend"
                  /\ registry' = [registry EXCEPT ![host] = Absent]
                  /\ suspended_hosts' = suspended_hosts \ {host}]_vars
    /\ [](\A w \in Workers : wpc[w] = "held" => registry[waddr[w]] = "Connect")

\* C23 witness: a pausing iteration has a suspended host to release while
\* another session holds a claim, in Connect, on another address.
C23_Witness ==
    /\ pc = "clear_suspended"
    /\ \E host \in suspended_hosts, w \in Workers :
          /\ wpc[w] = "held"
          /\ waddr[w] # host
          /\ registry[waddr[w]] = "Connect"

\* C24: an iteration that finds Grey empty, and one whose draw finds no Grey
\* entry with an allowed scheme, goes straight to the sleep: it changes no
\* list and no registry entry, and when it ends the lists and the suspended
\* hosts are those it found, nothing is in Refine, and no candidate was drawn
\* and no channel opened.
C24_SkipFrame ==
    /\ [][(pc = "is_empty" /\ is_empty(hostlists, Grey) /\ pc' # pc)
            => (pc' = "sleep" /\ hostlists' = hostlists /\ registry' = registry)]_vars
    /\ [][(/\ pc = "fetch"
           /\ \A i \in DOMAIN hostlists[Grey] :
                 Scheme(hostlists[Grey][i][1]) \notin AllowedTransports
           /\ pc' # pc)
            => (pc' = "sleep" /\ hostlists' = hostlists /\ registry' = registry)]_vars
    /\ []((pc = "sleep" /\ log # <<>> /\ Last(log).kind \in {"empty", "nomatch"})
            => /\ hostlists = Last(log).lists
               /\ suspended(registry) = Last(log).suspended
               /\ \A addr \in Addrs : registry[addr] # "Refine"
               /\ url = NoAddr
               /\ channel = "none")

\* C24 witness: after an iteration that evicted the only Grey entry with an
\* allowed scheme, an iteration has found no entry to draw and is back at the
\* sleep, a suspended host still in the registry.
C24_Witness ==
    /\ pc = "sleep"
    /\ Len(log) = 2
    /\ log[1].kind \in FailKinds
    /\ log[2].kind = "nomatch"
    /\ hostlists[Grey] # <<>>
    /\ suspended(registry) # {}

\* C25: the candidate the refinery claims, probes, evicts or promotes has a
\* scheme of the allowed transports; an address with another scheme is never
\* in Refine, and once it is in Grey no step takes it out of Grey.
C25_SchemeFilter ==
    /\ [](pc \in ClaimPcs \cup {"try_register"} => Scheme(url) \in AllowedTransports)
    /\ [](\A addr \in Addrs :
            Scheme(addr) \notin AllowedTransports => registry[addr] # "Refine")
    /\ [][\A addr \in Addrs :
            (Scheme(addr) \notin AllowedTransports /\ addr \in AddrsOf(hostlists[Grey]))
            => addr \in AddrsOf(hostlists'[Grey])]_vars

\* C25 witness: the refinery has evicted its candidate and Grey is left with
\* the one entry whose scheme is not allowed.
C25_Witness ==
    /\ pc = "unregister_fail"
    /\ Scheme(url) \in AllowedTransports
    /\ hostlists[Grey] # <<>>
    /\ \A i \in DOMAIN hostlists[Grey] :
          Scheme(hostlists[Grey][i][1]) \notin AllowedTransports

\* The positions of run at which the candidate is claimed and its list
\* mutation (the removal from Grey or the move to White) is still to be done.
MutationPendingPcs == {"hs_connect", "hs_start", "hs_select", "hs_stop", "hs_done",
                       "evict_lock", "evict_remove", "stamp", "move_host"}

\* C26: while the list mutation of the iteration is pending the candidate is
\* still claimed, and the refinery releases the claim only from the unregister
\* that follows the mutation: on the failure branch with the candidate out of
\* Grey, on the success branch with it in White and out of Grey; the release
\* itself changes no list.
C26_MutateThenRelease ==
    /\ [](pc \in MutationPendingPcs => registry[url] = "Refine")
    /\ [][(pc \in ClaimPcs /\ registry[url] = "Refine" /\ registry'[url] # "Refine")
            => /\ hostlists' = hostlists
               /\ url \notin AddrsOf(hostlists[Grey])
               /\ \/ pc = "unregister_fail"
                  \/ pc = "unregister_ok" /\ url \in AddrsOf(hostlists[White])]_vars

\* C26 witness: the move to White is complete and the candidate is still
\* claimed, the release being the next step of the refinery, while another
\* session holds a claim of its own.
C26_Witness ==
    /\ pc = "unregister_ok"
    /\ registry[url] = "Refine"
    /\ url \in AddrsOf(hostlists[White])
    /\ \E w \in Workers : wpc[w] = "held" /\ registry[waddr[w]] = "Connect"

\* The entries addr has in the list.
EntriesOf(list, addr) == SelectSeq(list, LAMBDA e : e[1] = addr)

\* C27: once the session runs, a step that changes the entries an address has
\* in a list is taken by the one worker that holds the claim on that address:
\* the refinery, at its removal or its move, with the address in Refine, or
\* another session with the address in Connect, and never both.
C27_ClaimedMutation ==
    [][spc = "running" =>
        \A addr \in Addrs :
            (\E c \in HostColor :
                EntriesOf(hostlists'[c], addr) # EntriesOf(hostlists[c], addr))
            => \/ /\ pc \in {"evict_remove", "move_host"}
                  /\ url = addr
                  /\ registry[addr] = "Refine"
                  /\ \A w \in Workers : ~WorkerHolds(w, addr)
                  /\ UNCHANGED worker_vars
               \/ /\ \E w \in Workers : WorkerHolds(w, addr)
                  /\ registry[addr] = "Connect"
                  /\ ~RefineryHolds(addr)
                  /\ UNCHANGED refinery_vars]_vars

\* C27 witness: the refinery has removed its claimed candidate from Grey while
\* another session holds the address it has moved to White.
C27_Witness ==
    /\ pc = "unregister_fail"
    /\ registry[url] = "Refine"
    /\ ~InSomeTier(hostlists, url)
    /\ \E w \in Workers :
          /\ wpc[w] = "held"
          /\ waddr[w] # url
          /\ waddr[w] \in AddrsOf(hostlists[White])

\* The iteration recorded as entry i of the log ended with a failed probe.
FailedAt(i) == i \in DOMAIN log /\ log[i].kind \in FailKinds

\* C28: the state in which an iteration with a failed probe ends is a function
\* of the lists and the registry it started from and of its candidate alone,
\* the same for a failed connect, a handshake error and a timeout: the lists
\* it found with the candidate's entry out of Grey, the registry it found
\* with no entry for the candidate; and once handshake_node has returned
\* false no step of the iteration depends on the arm it returned through.
C28_CauseBlind ==
    /\ []((pc = "sleep" /\ FailedAt(Len(log)))
            => /\ hostlists = [Last(log).lists EXCEPT
                                 ![Grey] = Without(@, Last(log).addr)]
               /\ suspended(registry) = Last(log).suspended
               /\ registry[Last(log).addr] = Absent
               /\ \A addr \in Addrs : registry[addr] # "Refine")
    /\ [][(pc = "hs_done" /\ ~result /\ pc' # pc) => pc' = "evict_lock"]_vars

\* C28 witness: two iterations have ended, one after a failed connect and one
\* after a timeout, each with its candidate evicted and released.
C28_Witness ==
    /\ pc = "sleep"
    /\ Len(log) = 2
    /\ log[1].kind = "connect_err"
    /\ log[2].kind = "timeout"
    /\ log[1].addr \notin AddrsOf(hostlists[Grey])
    /\ log[2].addr \notin AddrsOf(hostlists[Grey])
    /\ RegistryEmpty

\* C29: once the refinery task has been cancelled, and after stop() has
\* returned, the channel of its probe is not left started: a probe cancelled
\* after channel.start() has had its channel stopped.
C29_NoChannelAfterStop ==
    (pc = "cancelled" \/ spc = "stopped") => channel # "started"

\* C30: whenever the refinery is at the removal after a failed probe, under
\* the write guard of the greylist, its candidate is in Grey, so that the
\* positional lookup returns a position.
C30_CandidateInGrey ==
    pc = "evict_remove" =>
        /\ url \in AddrsOf(hostlists[Grey])
        /\ get_index_at_addr(hostlists, Grey, url) # 0

\* C31: whenever the refinery is about to move its candidate to White the
\* candidate's entry is in Grey: the move never takes an entry out of Gold
\* and never re-stamps an entry that is in White already.
C31_PromotesFromGrey ==
    pc = "move_host" =>
        /\ ColorOf(hostlists, url) = Grey
        /\ url \notin AddrsOf(hostlists[Gold])
        /\ url \notin AddrsOf(hostlists[White])

\* C32: once a probe has failed, the refinery gets the write lock of the
\* greylist, removes the candidate and goes on to release the claim: from the
\* request of the lock the iteration always reaches its end, the candidate no
\* longer claimed.
C32_EvictionCompletes ==
    (pc = "evict_lock") ~> (pc = "sleep" /\ \A addr \in Addrs : registry[addr] # "Refine")

\* C33: the removal after a failed probe takes the candidate's entry, and
\* that entry alone, out of Grey: Grey afterwards is Grey before without the
\* candidate, one entry shorter and the other entries in their order, and
\* White, Gold and Black are as before.
C33_EvictsCandidateOnly ==
    [][(pc = "evict_remove" /\ pc' = "unregister_fail")
        => /\ hostlists'[Grey] = Without(hostlists[Grey], url)
           /\ Len(hostlists'[Grey]) = Len(hostlists[Grey]) - 1
           /\ \A c \in {White, Gold, Black} : hostlists'[c] = hostlists[c]]_vars

\* C33 witness: the refinery has removed tcp://b and Grey has kept its two
\* other entries, tcp://a first, while another session holds tcp://a.
C33_Witness ==
    /\ pc = "unregister_fail"
    /\ url = AddrB
    /\ AddrSeq(hostlists[Grey]) = <<AddrA, AddrC>>
    /\ \E w \in Workers : WorkerHolds(w, AddrA)

\* C34: a step of the refinery changes White only at its move_host, with the
\* candidate claimed as Refine and the probe of this iteration returned true
\* through the handshake arm, and it appends the candidate and nothing else;
\* on the failure branch the probe returned false and no step touches White.
C34_WhiteFromSuccess ==
    /\ [][(pc' # pc /\ hostlists'[White] # hostlists[White])
            => /\ pc = "move_host"
               /\ result
               /\ hs_path = "ok"
               /\ registry[url] = "Refine"
               /\ hostlists'[White]
                     = Append(Without(hostlists[White], url), <<url, last_seen>>)]_vars
    /\ [](pc \in {"evict_lock", "evict_remove", "unregister_fail"}
            => (~result /\ hs_path \in FailKinds /\ registry[url] = "Refine"))

\* C34 witness: the refinery has appended its claimed candidate to White
\* after a handshake that succeeded, its channel stopped.
C34_Witness ==
    /\ pc = "unregister_ok"
    /\ result
    /\ hs_path = "ok"
    /\ channel = "stopped"
    /\ registry[url] = "Refine"
    /\ hostlists[White] # <<>>
    /\ Last(hostlists[White]) = <<url, last_seen>>

\* C35: no step of the refinery changes the Gold list or the Black list, and
\* none adds an address to Grey.
C35_GoldBlackFrame ==
    [][pc' # pc
        => /\ hostlists'[Gold] = hostlists[Gold]
           /\ hostlists'[Black] = hostlists[Black]
           /\ AddrsOf(hostlists'[Grey]) \subseteq AddrsOf(hostlists[Grey])]_vars

\* C36: no step of handshake_node changes the registry, a host list or the
\* holder of the greylist lock, and from its call to its return, on every
\* outcome, the lists and the suspended hosts are those the iteration found
\* and the one address in Refine is the candidate its caller claimed.
C36_PureProbe ==
    /\ [][(pc \in NetworkPcs /\ pc' # pc)
            => /\ pc' \in ProbePcs
               /\ registry' = registry
               /\ hostlists' = hostlists
               /\ grey_writer' = grey_writer]_vars
    /\ [](pc \in ProbePcs
            => /\ log # <<>>
               /\ hostlists = Last(log).lists
               /\ suspended(registry) = Last(log).suspended
               /\ {addr \in Addrs : registry[addr] = "Refine"} = {url})

\* C36 witness: handshake_node has returned true, with the lists as they were
\* at its call, a suspended host still suspended and the caller's claim in
\* place.
C36_Witness ==
    /\ pc = "hs_done"
    /\ hs_path = "ok"
    /\ log # <<>>
    /\ hostlists = Last(log).lists
    /\ suspended(registry) # {}
    /\ registry[url] = "Refine"

\* From some point on the node stays connected and the other sessions hold
\* no claim and have left no address in Suspend.
EventuallyUndisturbed ==
    <>[](/\ connected
         /\ \A w \in Workers : wpc[w] = "idle"
         /\ \A addr \in Addrs : registry[addr] # "Suspend")

\* C37: the loop of the refinery never ends, and when the node stays
\* connected and the other sessions keep no claim, every Grey entry with an
\* allowed scheme eventually leaves Grey.
C37_GreyDrained ==
    /\ [](pc # "panicked")
    /\ \A addr \in Addrs :
          (Scheme(addr) \in AllowedTransports /\ EventuallyUndisturbed)
          => ((addr \in AddrsOf(hostlists[Grey]))
                 ~> (addr \notin AddrsOf(hostlists[Grey])))

====
